---- MODULE Spec2Model ----
(***************************************************************************)
(* A model of fellaskeeper.py: the habit commands (daily / weekly /        *)
(* monthly / myhabits / deletehabit / myhabityear), the period resolver,   *)
(* the completion oracle, the check-in streak computation and the year     *)
(* grid of myyear / myhabityear.                                           *)
(*                                                                         *)
(* A calendar date is its proleptic Gregorian ordinal (datetime.date's     *)
(* toordinal(): 0001-01-01 is 1), so that date +/- timedelta(days=n) is    *)
(* integer arithmetic and date comparison is integer comparison, as in     *)
(* Python.  Year, month and day of a date are recovered from the ordinal.  *)
(*                                                                         *)
(* Every handler runs to its ctx.send without an await in between, so one  *)
(* command is one step.  The steps are those of a database that answers,   *)
(* except in FailureSpec, where a connection or a statement may fail and   *)
(* the except branches of the handlers and of their helpers are taken.     *)
(***************************************************************************)
EXTENDS Integers, Sequences, FiniteSets, Bags, TLC

VARIABLES
    clock,              \* the calendar date date.today() returns now
    today,              \* the module-level today: date.today() when the module was loaded
    checkins,           \* table checkins: bag of rows [user_id, date, rating]
    habits,             \* table habits: set of rows [id, user_id, description, reset_period]
    habit_completions,  \* table habit_completions: bag of rows [user_id, habit_id, date]
    next_habit_id,      \* the serial that numbers new habits rows
    goals,              \* table goals: set of rows [id, user_id, description, progress, total]
    next_goal_id,       \* the serial that numbers new goals rows
    reply,              \* what the last command handler sent with ctx.send
    call                \* one call of a pure routine: its arguments and its result

vars == <<clock, today, checkins, habits, habit_completions, next_habit_id, goals,
          next_goal_id, reply, call>>

----------------------------------------------------------------------------
(* Bounds of the model *)

\* the first calendar year of the modelled range of dates
FirstYear == 2023
\* the number of calendar years in the modelled range (2023 .. 2025: 2024 is leap)
NumYears == 3

LastYear == FirstYear + NumYears - 1
Years == FirstYear .. LastYear

----------------------------------------------------------------------------
(* datetime.date *)

is_leap(y) == (y % 4 = 0) /\ ((y % 100 # 0) \/ (y % 400 = 0))

days_in_month(y, m) ==
    IF m = 2 THEN (IF is_leap(y) THEN 29 ELSE 28)
    ELSE IF m \in {4, 6, 9, 11} THEN 30 ELSE 31

\* number of days before January 1 of year y
days_before_year(y) ==
    LET p == y - 1 IN p * 365 + (p \div 4) - (p \div 100) + (p \div 400)

RECURSIVE days_before_month(_, _)
days_before_month(y, m) ==
    IF m = 1 THEN 0 ELSE days_before_month(y, m - 1) + days_in_month(y, m - 1)

\* date(y, m, d), as its ordinal
date(y, m, d) == days_before_year(y) + days_before_month(y, m) + d

\* every date of the modelled years
Dates == date(FirstYear, 1, 1) .. date(LastYear, 12, 31)

\* the fields of a date: the inverse of date(y, m, d), tabulated over Dates
YearOf ==
    [n \in Dates |-> CHOOSE y \in Years : date(y, 1, 1) <= n /\ n <= date(y, 12, 31)]

MonthOf ==
    [n \in Dates |->
        CHOOSE m \in 1..12 :
            /\ date(YearOf[n], m, 1) <= n
            /\ n < date(YearOf[n], m, 1) + days_in_month(YearOf[n], m)]

DayOf == [n \in Dates |-> n - date(YearOf[n], MonthOf[n], 1) + 1]

\* date.weekday(): Monday is 0, Sunday is 6
weekday(n) == (n + 6) % 7

----------------------------------------------------------------------------
(* Period resolver and completion oracle *)

\* the recurrence kinds the habit commands store, and one no command stores
Kinds == {"daily", "weekly", "monthly"}
AnyKinds == Kinds \cup {"yearly"}

Null == "None"

\* get_current_period_start adding the weekday instead of subtracting it
period_start_sign_slip(reset_period, target_date) ==
    IF reset_period = "daily" THEN target_date
    ELSE IF reset_period = "weekly" THEN target_date + weekday(target_date)
    ELSE IF reset_period = "monthly" THEN
        date(YearOf[target_date], MonthOf[target_date], 1)
    ELSE target_date

\* get_current_period_start with isoweekday() (Monday is 1) for weekday()
period_start_isoweekday(reset_period, target_date) ==
    IF reset_period = "daily" THEN target_date
    ELSE IF reset_period = "weekly" THEN target_date - (weekday(target_date) + 1)
    ELSE IF reset_period = "monthly" THEN
        date(YearOf[target_date], MonthOf[target_date], 1)
    ELSE target_date

get_current_period_start(reset_period, target_date) ==
    IF reset_period = "daily" THEN target_date
    ELSE IF reset_period = "weekly" THEN
        LET days_since_monday == weekday(target_date)
        IN  target_date - days_since_monday
    ELSE IF reset_period = "monthly" THEN
        date(YearOf[target_date], MonthOf[target_date], 1)
    ELSE target_date

\* period_end of a week: period_start + timedelta(days=6)
week_period_end(period_start) == period_start + 6

\* month_period_end taking every month to have 31 days
month_period_end_31(period_start) == period_start + 30

\* period_end of a month: the first day of the following month minus one day
month_period_end(period_start) ==
    IF MonthOf[period_start] = 12
    THEN date(YearOf[period_start] + 1, 1, 1) - 1
    ELSE date(YearOf[period_start], MonthOf[period_start] + 1, 1) - 1

\* the oracle accepting only a row dated the first day of the period
completion_range_start_only(reset_period, target_date) ==
    LET period_start == get_current_period_start(reset_period, target_date)
    IN  <<period_start, period_start>>

\* the inclusive range <<first, last>> of dates the oracle's SELECT accepts
completion_range(reset_period, target_date) ==
    LET period_start == get_current_period_start(reset_period, target_date)
    IN  IF reset_period = "daily" THEN <<period_start, period_start>>
        ELSE IF reset_period = "weekly" THEN <<period_start, week_period_end(period_start)>>
        ELSE <<period_start, month_period_end(period_start)>>

\* rows_between with the last day of the range left out (date < last)
rows_between_exclusive(table, user_id, habit_id, first, last) ==
    {r \in BagToSet(table) :
        /\ r.user_id = user_id
        /\ r.habit_id = habit_id
        /\ r.date >= first
        /\ r.date < last}

\* the rows of bag `table` of one (user, habit) pair dated within first..last
rows_between(table, user_id, habit_id, first, last) ==
    {r \in BagToSet(table) :
        /\ r.user_id = user_id
        /\ r.habit_id = habit_id
        /\ r.date >= first
        /\ r.date <= last}

\* result is not None, for the SELECT over table habit_completions
is_habit_completed_in_period(table, user_id, habit_id, reset_period, target_date) ==
    LET range == completion_range(reset_period, target_date)
    IN  rows_between(table, user_id, habit_id, range[1], range[2]) # {}

Completion(user_id, habit_id, d) ==
    [user_id |-> user_id, habit_id |-> habit_id, date |-> d]

----------------------------------------------------------------------------
(* The habit tables left untouched by the specifications of single routines *)

NoReply == [cmd |-> Null]

HabitsIdle ==
    /\ clock = date(FirstYear, 1, 1)
    /\ today = clock
    /\ checkins = EmptyBag
    /\ habits = {}
    /\ next_habit_id = 1
    /\ goals = {}
    /\ next_goal_id = 1
    /\ reply = NoReply

----------------------------------------------------------------------------
(* PeriodSpec: the period of every date of the modelled years, for every   *)
(* kind: the period start of get_current_period_start and the range the    *)
(* oracle derives from it.                                                 *)

PeriodInit ==
    /\ HabitsIdle
    /\ habit_completions = EmptyBag
    /\ \E k \in AnyKinds, d \in Dates :
        call = [fn |-> "period", reset_period |-> k, target_date |-> d,
                done |-> FALSE, ret |-> Null]

PeriodReturn ==
    /\ call.fn = "period"
    /\ ~call.done
    /\ call' = [call EXCEPT
            !.done = TRUE,
            !.ret = [period_start |->
                        get_current_period_start(call.reset_period, call.target_date),
                     range |-> completion_range(call.reset_period, call.target_date)]]
    /\ UNCHANGED <<clock, today, checkins, habits, habit_completions, next_habit_id, goals,
                 next_goal_id, reply>>

PeriodNext == PeriodReturn

PeriodSpec == PeriodInit /\ [][PeriodNext]_vars

----------------------------------------------------------------------------
(* OracleSpec: is_habit_completed_in_period over every table holding up to *)
(* MaxRecords completions of the pair asked about, and possibly rows of    *)
(* another user and of another habit on the target date.                   *)

\* the length in days of the window of dates the oracle is exercised on
OracleSpan == 40
\* the largest number of completion rows of the pair asked about
MaxRecords == 2

\* from December 20: the window crosses the December to January rollover
OracleDates == date(FirstYear, 12, 20) .. (date(FirstYear, 12, 20) + OracleSpan - 1)

\* the subsets of S with at most k elements
RECURSIVE SetsUpTo(_, _)
SetsUpTo(S, k) ==
    IF k = 0 THEN {{}}
    ELSE LET smaller == SetsUpTo(S, k - 1)
         IN  smaller \cup {A \cup {x} : A \in smaller, x \in S}

RecordSets == SetsUpTo(OracleDates, MaxRecords)

OracleInit ==
    /\ HabitsIdle
    /\ \E k \in AnyKinds, d \in OracleDates, R \in RecordSets, others \in BOOLEAN :
        /\ habit_completions =
              SetToBag({Completion(1, 1, x) : x \in R}
                       \cup (IF others THEN {Completion(2, 1, d), Completion(1, 2, d)}
                             ELSE {}))
        /\ call = [fn |-> "is_habit_completed_in_period", user_id |-> 1, habit_id |-> 1,
                   reset_period |-> k, target_date |-> d, done |-> FALSE, ret |-> Null]

OracleReturn ==
    /\ call.fn = "is_habit_completed_in_period"
    /\ ~call.done
    /\ call' = [call EXCEPT
            !.done = TRUE,
            !.ret = is_habit_completed_in_period(habit_completions, call.user_id,
                        call.habit_id, call.reset_period, call.target_date)]
    /\ UNCHANGED <<clock, today, checkins, habits, habit_completions, next_habit_id, goals,
                 next_goal_id, reply>>

OracleNext == OracleReturn

OracleSpec == OracleInit /\ [][OracleNext]_vars

----------------------------------------------------------------------------
(* The periods as the specification words them, written without the        *)
(* routines above: a Monday is a date a whole number of weeks from Monday   *)
(* 2024-01-01, and a month ends days_in_month days after it starts.         *)

IsMonday(d) == (d - date(2024, 1, 1)) % 7 = 0

PeriodFirst(kind, d) ==
    IF kind = "daily" THEN d
    ELSE IF kind = "weekly" THEN CHOOSE m \in (d - 6) .. d : IsMonday(m)
    ELSE d - DayOf[d] + 1

PeriodLast(kind, d) ==
    IF kind = "daily" THEN d
    ELSE IF kind = "weekly" THEN PeriodFirst(kind, d) + 6
    ELSE PeriodFirst(kind, d) + days_in_month(YearOf[d], MonthOf[d]) - 1

\* the completion dates the table holds for one (user, habit) pair
DatesOf(table, user_id, habit_id) ==
    {r.date : r \in {x \in BagToSet(table) :
                        x.user_id = user_id /\ x.habit_id = habit_id}}

PeriodReturned == call.fn = "period" /\ call.done
OracleReturned == call.fn = "is_habit_completed_in_period" /\ call.done

(* C2: for daily, weekly and monthly, the oracle answers true exactly when *)
(* some completion date of the (user, habit) pair asked about lies between *)
(* the first and the last day of the period containing the target date;    *)
(* rows of other users and other habits do not count.                      *)
C2_CompletionOracle ==
    (OracleReturned /\ call.reset_period \in Kinds) =>
        (call.ret <=>
            \E d \in DatesOf(habit_completions, call.user_id, call.habit_id) :
                /\ PeriodFirst(call.reset_period, call.target_date) <= d
                /\ d <= PeriodLast(call.reset_period, call.target_date))

\* a monthly habit found completed by a record on the last day of the month
\* only, with rows of another user and another habit in the table
C2_Witness ==
    /\ OracleReturned
    /\ call.reset_period = "monthly"
    /\ call.ret = TRUE
    /\ DatesOf(habit_completions, 1, 1) = {PeriodLast("monthly", call.target_date)}
    /\ call.target_date < PeriodLast("monthly", call.target_date)
    /\ DatesOf(habit_completions, 2, 1) # {}

(* C3: for daily, weekly and monthly and every date, the period start the  *)
(* resolver returns and the period end derived from it enclose the date:   *)
(* period_start <= date <= period_end, all three equal for daily.          *)
C3_PeriodContainment ==
    (PeriodReturned /\ call.reset_period \in Kinds) =>
        /\ call.ret.range[1] = call.ret.period_start
        /\ call.ret.period_start <= call.target_date
        /\ call.target_date <= call.ret.range[2]
        /\ (call.reset_period = "daily" =>
                /\ call.ret.period_start = call.target_date
                /\ call.ret.range[2] = call.target_date)

\* a date strictly inside its week
C3_Witness ==
    /\ PeriodReturned
    /\ call.reset_period = "weekly"
    /\ call.ret.period_start < call.target_date
    /\ call.target_date < call.ret.range[2]

\* the dates of the Monday-to-Sunday week of d
SameWeek(d) ==
    LET monday == CHOOSE m \in (d - 6) .. d : IsMonday(m)
    IN  (monday .. (monday + 6)) \cap Dates

(* C4: the weekly period of every date starts on a Monday at most 6 days   *)
(* before the date and ends 6 days after its start (7 days in all), and    *)
(* every date of the same Monday-to-Sunday week gets the same period.      *)
C4_WeeklyPeriod ==
    (PeriodReturned /\ call.reset_period = "weekly") =>
        /\ IsMonday(call.ret.period_start)
        /\ call.target_date - call.ret.period_start \in 0 .. 6
        /\ call.ret.range = <<call.ret.period_start, call.ret.period_start + 6>>
        /\ call.ret.range[2] - call.ret.range[1] + 1 = 7
        /\ \A d2 \in SameWeek(call.target_date) :
            /\ get_current_period_start("weekly", d2) = call.ret.period_start
            /\ completion_range("weekly", d2) = call.ret.range

\* a Sunday, whose week started 6 days earlier
C4_Witness ==
    /\ PeriodReturned
    /\ call.reset_period = "weekly"
    /\ call.target_date - call.ret.period_start = 6

(* C5: the monthly period of every date starts on day 1 of the date's      *)
(* month and ends on the last day of that month: February 29 in a leap     *)
(* year, February 28 otherwise, December 31 of the same year in December.  *)
C5_MonthlyPeriod ==
    (PeriodReturned /\ call.reset_period = "monthly") =>
        LET y == YearOf[call.target_date]
            m == MonthOf[call.target_date]
            first == call.ret.range[1]
            last == call.ret.range[2]
        IN  /\ first = call.ret.period_start
            /\ first \in Dates /\ last \in Dates
            /\ YearOf[first] = y /\ MonthOf[first] = m /\ DayOf[first] = 1
            /\ YearOf[last] = y /\ MonthOf[last] = m
            /\ DayOf[last] = days_in_month(y, m)
            /\ (last + 1 \in Dates => DayOf[last + 1] = 1)
            /\ (m = 2 => DayOf[last] = IF y % 4 = 0 THEN 29 ELSE 28)
            /\ (m = 12 => last = date(y, 12, 31))

\* a date of a December, whose period ends on December 31 of the same year
C5_Witness ==
    /\ PeriodReturned
    /\ call.reset_period = "monthly"
    /\ MonthOf[call.target_date] = 12
    /\ DayOf[call.ret.range[2]] = 31
    /\ YearOf[call.ret.range[2]] = YearOf[call.target_date]

(* C6: for a kind that is not daily, weekly or monthly the oracle treats   *)
(* the target date as a one-day period: it answers true only when the pair *)
(* has a completion on exactly the target date.                            *)
C6_UnknownKindSingleDay ==
    (OracleReturned /\ call.reset_period \notin Kinds) =>
        (call.ret <=>
            call.target_date \in DatesOf(habit_completions, call.user_id, call.habit_id))

----------------------------------------------------------------------------
(* Check-in streaks: get_streak and the streak command *)

Users == {1, 2}

Checkin(user_id, d, rating) == [user_id |-> user_id, date |-> d, rating |-> rating]

\* the elements of a set of dates in ascending order (ORDER BY date ASC)
RECURSIVE SortedDates(_)
SortedDates(S) ==
    IF S = {} THEN <<>>
    ELSE LET least == CHOOSE x \in S : \A y \in S : x <= y
         IN  <<least>> \o SortedDates(S \ {least})

\* SELECT DISTINCT date FROM checkins WHERE user_id = %s ORDER BY date ASC
checkin_dates(table, user_id) ==
    SortedDates({r.date : r \in {x \in BagToSet(table) : x.user_id = user_id}})

\* the longest-streak loop without its else branch: streak is never reset to 1
RECURSIVE longest_scan_no_reset(_, _, _, _)
longest_scan_no_reset(dates, i, streak, longest_streak) ==
    IF i > Len(dates) THEN longest_streak
    ELSE IF dates[i] - dates[i - 1] = 1
         THEN longest_scan_no_reset(dates, i + 1, streak + 1,
                    IF streak + 1 > longest_streak THEN streak + 1 ELSE longest_streak)
         ELSE longest_scan_no_reset(dates, i + 1, streak, longest_streak)

\* for i in range(1, len(dates)): dates[i] here is element i of a 1-based sequence,
\* so the loop runs over i = 2 .. Len(dates)
RECURSIVE longest_scan(_, _, _, _)
longest_scan(dates, i, streak, longest_streak) ==
    IF i > Len(dates) THEN longest_streak
    ELSE IF dates[i] - dates[i - 1] = 1
         THEN longest_scan(dates, i + 1, streak + 1,
                    IF streak + 1 > longest_streak THEN streak + 1 ELSE longest_streak)
         ELSE longest_scan(dates, i + 1, 1, longest_streak)

\* while i >= 0 and dates[i] == current_date, from the last element down
RECURSIVE current_scan(_, _, _, _)
current_scan(dates, i, current_date, current_streak) ==
    IF i >= 1 /\ dates[i] = current_date
    THEN current_scan(dates, i - 1, current_date - 1, current_streak + 1)
    ELSE current_streak

\* <<current_streak, longest_streak>> of a non-empty ascending list of dates
streaks_of(dates, today_now) ==
    <<current_scan(dates, Len(dates), today_now, 0), longest_scan(dates, 2, 1, 1)>>

\* get_streak(user_id) run on the date today_now: <<current_streak, longest_streak>>
get_streak(table, user_id, today_now) ==
    LET dates == checkin_dates(table, user_id)
    IN  IF dates = <<>> THEN <<0, 0>> ELSE streaks_of(dates, today_now)

\* what the streak command sends
streak_reply(table, user_id, today_now) ==
    LET dates == checkin_dates(table, user_id)
    IN  IF dates = <<>>
        THEN [cmd |-> "streak", user_id |-> user_id, outcome |-> "no_checkins"]
        ELSE [cmd |-> "streak", user_id |-> user_id, outcome |-> "streaks",
              current_streak |-> streaks_of(dates, today_now)[1],
              longest_streak |-> streaks_of(dates, today_now)[2]]

----------------------------------------------------------------------------
(* StreakSpec: get_streak and the streak command over every set of         *)
(* check-in dates of one user within a window of StreakSpan days, on every *)
(* day of the window, with or without check-ins of another user.           *)

\* the length in days of the window of check-in dates
StreakSpan == 7

\* from December 28: the window crosses a New Year
StreakDates == date(FirstYear, 12, 28) .. (date(FirstYear, 12, 28) + StreakSpan - 1)

StreakInit ==
    /\ \E D \in SUBSET StreakDates, t \in StreakDates, others \in BOOLEAN :
        /\ clock = t
        /\ checkins =
              SetToBag({Checkin(1, d, 3) : d \in D}
                       \cup (IF others THEN {Checkin(2, d, 4) : d \in StreakDates} ELSE {}))
    /\ today = date(FirstYear, 12, 28)
    /\ habits = {}
    /\ habit_completions = EmptyBag
    /\ next_habit_id = 1
    /\ goals = {}
    /\ next_goal_id = 1
    /\ reply = NoReply
    /\ call = [fn |-> "get_streak", user_id |-> 1, done |-> FALSE, ret |-> Null]

GetStreakReturn ==
    /\ call.fn = "get_streak"
    /\ ~call.done
    /\ call' = [call EXCEPT !.done = TRUE,
                            !.ret = get_streak(checkins, call.user_id, clock)]
    /\ UNCHANGED <<clock, today, checkins, habits, habit_completions, next_habit_id, goals,
                 next_goal_id, reply>>

\* the streak command of user 1
StreakCommand ==
    /\ call.fn = "get_streak"
    /\ reply = NoReply
    /\ reply' = streak_reply(checkins, 1, clock)
    /\ UNCHANGED <<clock, today, checkins, habits, habit_completions, next_habit_id, goals,
                 next_goal_id, call>>

StreakNext == GetStreakReturn \/ StreakCommand

StreakSpec == StreakInit /\ [][StreakNext]_vars

\* the check-in dates of user 1
MyDates == {r.date : r \in {x \in BagToSet(checkins) : x.user_id = 1}}

\* the number of consecutive days today, today-1, ... that are all in D
RunEndingAt(D, t) ==
    CHOOSE n \in 0 .. Cardinality(D) :
        /\ \A k \in 0 .. (n - 1) : (t - k) \in D
        /\ (t - n) \notin D

\* the length of the longest run of consecutive days contained in D
LongestRun(D) ==
    IF D = {} THEN 0
    ELSE CHOOSE n \in 1 .. Cardinality(D) :
            /\ \E d \in D : RunEndingAt(D, d) = n
            /\ \A d \in D : RunEndingAt(D, d) <= n

GetStreakReturned == call.fn = "get_streak" /\ call.done
StreakReplied == reply # NoReply /\ reply.cmd = "streak"

(* C7: the current streak get_streak returns and the streak command sends  *)
(* is the number of consecutive days today, today-1, today-2, ... that all *)
(* have a check-in, whatever other dates, earlier or later than today, the *)
(* user has check-ins on; it is 0 when today has none.                     *)
C7_CurrentStreak ==
    /\ GetStreakReturned => call.ret[1] = RunEndingAt(MyDates, clock)
    /\ (StreakReplied /\ reply.outcome = "streaks") =>
            reply.current_streak = RunEndingAt(MyDates, clock)

(* C8: the longest streak get_streak returns and the streak command sends  *)
(* is the length of the longest run of consecutive days among the user's   *)
(* check-in dates: 0 with no check-in (the streak command then sends its   *)
(* no-check-ins notice), 1 for a single date, whatever today is.           *)
C8_LongestStreak ==
    /\ GetStreakReturned => call.ret[2] = LongestRun(MyDates)
    /\ StreakReplied =>
            IF MyDates = {} THEN reply.outcome = "no_checkins"
            ELSE reply.outcome = "streaks" /\ reply.longest_streak = LongestRun(MyDates)

\* two runs, of 2 days and then of 3, none reaching today, beside another user's rows
C8_Witness ==
    /\ GetStreakReturned
    /\ StreakReplied
    /\ Cardinality(MyDates) = 5
    /\ call.ret = <<0, 3>>
    /\ clock \notin MyDates
    /\ \E r \in BagToSet(checkins) : r.user_id = 2

----------------------------------------------------------------------------
(* The year grid of myyear and myhabityear *)

\* range(27): the rows of the grid
GridRows == 27
\* range(7): the days of one block of a row
BlockDays == 7

\* the module-level year, start_date and end_date, set with today at load time
year == YearOf[today]
start_date == date(year, 1, 1)
end_date == date(year, 12, 31)

\* the key None of mood_colors (no rating), written as the rating 0
NoRating == 0

\* mood_colors: the glyph of a rating, and of None for a day without check-in
mood_colors ==
    [r \in 0 .. 5 |->
        CASE r = 1 -> "red" [] r = 2 -> "orange" [] r = 3 -> "yellow"
          [] r = 4 -> "green" [] r = 5 -> "blue" [] OTHER -> "white"]

\* myyear's cell: mood_colors[day_to_rating.get(current_date, None)]
rating_glyph(day_to_rating, current_date) ==
    mood_colors[IF current_date \in DOMAIN day_to_rating
                THEN day_to_rating[current_date] ELSE NoRating]

\* myhabityear's cell: green for a completed day, white otherwise
completion_glyph(completed_dates, current_date) ==
    IF current_date \in completed_dates THEN "green" ELSE "white"

\* the glyph of a date under a status, which is myyear's day_to_rating (a function)
\* or myhabityear's completed_dates (a set)
glyph_for(view, status, current_date) ==
    IF view = "myyear" THEN rating_glyph(status, current_date)
    ELSE completion_glyph(status, current_date)

\* a block whose loop does not test current_date > end_date
RECURSIVE block_unchecked(_, _, _, _, _)
block_unchecked(view, status, current_date, last_date, i) ==
    IF i >= BlockDays THEN <<>>
    ELSE <<[date |-> current_date, glyph |-> glyph_for(view, status, current_date)]>>
         \o block_unchecked(view, status, current_date + 1, last_date, i + 1)

\* for i in range(7): the cells of one block from current_date on, stopping past
\* last_date; a cell is its glyph, with the date it was drawn for
RECURSIVE block(_, _, _, _, _)
block(view, status, current_date, last_date, i) ==
    IF i >= BlockDays \/ current_date > last_date THEN <<>>
    ELSE <<[date |-> current_date, glyph |-> glyph_for(view, status, current_date)]>>
         \o block(view, status, current_date + 1, last_date, i + 1)

\* the grid with one row less: range(26)
RECURSIVE grid_rows_short(_, _, _, _, _)
grid_rows_short(view, status, current_date, last_date, week) ==
    IF week >= GridRows - 1 THEN <<>>
    ELSE LET first == block(view, status, current_date, last_date, 0)
             second == block(view, status, current_date + Len(first), last_date, 0)
             next_date == current_date + Len(first) + Len(second)
         IN  <<[first |-> first, second |-> second]>>
             \o (IF next_date > last_date THEN <<>>
                 ELSE grid_rows_short(view, status, next_date, last_date, week + 1))

\* for week in range(27): a row is its first block, a tab, its second block; the
\* loop ends after the row that takes current_date past last_date
RECURSIVE grid_rows(_, _, _, _, _)
grid_rows(view, status, current_date, last_date, week) ==
    IF week >= GridRows THEN <<>>
    ELSE LET first == block(view, status, current_date, last_date, 0)
             second == block(view, status, current_date + Len(first), last_date, 0)
             next_date == current_date + Len(first) + Len(second)
         IN  <<[first |-> first, second |-> second]>>
             \o (IF next_date > last_date THEN <<>>
                 ELSE grid_rows(view, status, next_date, last_date, week + 1))

\* day_to_rating: the rating of each check-in date of the user
day_to_rating_of(table, user_id) ==
    LET rows == {x \in BagToSet(table) : x.user_id = user_id}
    IN  [d \in {r.date : r \in rows} |-> (CHOOSE r \in rows : r.date = d).rating]

\* what myyear sends
myyear_reply(table, user_id) ==
    IF {x \in BagToSet(table) : x.user_id = user_id} = {}
    THEN [cmd |-> "myyear", user_id |-> user_id, outcome |-> "no_checkins"]
    ELSE [cmd |-> "myyear", user_id |-> user_id, outcome |-> "grid",
          grid |-> grid_rows("myyear", day_to_rating_of(table, user_id),
                             start_date, end_date, 0)]

\* get_user_habits_mapping: the user's habits rows in id order
RECURSIVE SortedById(_)
SortedById(rows) ==
    IF rows = {} THEN <<>>
    ELSE LET least == CHOOSE x \in rows : \A y \in rows : x.id <= y.id
         IN  <<least>> \o SortedById(rows \ {least})

get_user_habits_mapping(user_id) ==
    SortedById({h \in habits : h.user_id = user_id})

\* what myhabityear sends
myhabityear_reply(user_id, habit_number) ==
    LET rows == get_user_habits_mapping(user_id)
    IN  IF habit_number \notin 1 .. Len(rows)
        THEN [cmd |-> "myhabityear", user_id |-> user_id, outcome |-> "not_found"]
        ELSE LET db_id == rows[habit_number].id
                 completed_dates ==
                    {r.date : r \in rows_between(habit_completions, user_id, db_id,
                                                 start_date, end_date)}
             IN  IF completed_dates = {}
                 THEN [cmd |-> "myhabityear", user_id |-> user_id, habit_id |-> db_id,
                       outcome |-> "no_completions"]
                 ELSE [cmd |-> "myhabityear", user_id |-> user_id, habit_id |-> db_id,
                       outcome |-> "grid",
                       grid |-> grid_rows("myhabityear", completed_dates,
                                          start_date, end_date, 0)]

Habit(id, user_id, description, reset_period) ==
    [id |-> id, user_id |-> user_id, description |-> description,
     reset_period |-> reset_period]

----------------------------------------------------------------------------
(* YearSpec: myyear and myhabityear, loaded in each of the modelled years,  *)
(* for a user whose check-ins and completions of one daily habit fall on up *)
(* to MaxRecords dates among the first and the last days of rows and blocks *)
(* and the days just outside the year.                                      *)

\* days of interest of year y: the ends of the first blocks and rows, the last
\* days of the year, and the days before and after the year
GridDates(y) ==
    {date(y, 1, 1) + k : k \in {-1, 0, 6, 7, 13, 14}}
        \cup {date(y, 12, 31) + k : k \in {-2, -1, 0, 1}}

YearInit ==
    /\ \E y \in Years :
        /\ today \in {date(y, 1, 1), date(y, 12, 31)}
        /\ \E D \in SetsUpTo(GridDates(y), MaxRecords) :
            /\ checkins = SetToBag({Checkin(1, d, (d % 5) + 1) : d \in D}
                                   \cup {Checkin(2, date(y, 1, 1), 5)})
            /\ habit_completions = SetToBag({Completion(1, 1, d) : d \in D}
                                            \cup {Completion(2, 2, date(y, 1, 1))})
    /\ clock = end_date + 1
    /\ habits = {Habit(1, 1, "run", "daily"), Habit(2, 2, "run", "daily")}
    /\ next_habit_id = 3
    /\ goals = {}
    /\ next_goal_id = 1
    /\ reply = NoReply
    /\ call = [fn |-> Null]

MyYear ==
    /\ reply = NoReply
    /\ reply' = myyear_reply(checkins, 1)
    /\ UNCHANGED <<clock, today, checkins, habits, habit_completions, next_habit_id, goals,
                 next_goal_id, call>>

MyHabitYear ==
    /\ reply = NoReply
    /\ \E habit_number \in 0 .. 2 :
        reply' = myhabityear_reply(1, habit_number)
    /\ UNCHANGED <<clock, today, checkins, habits, habit_completions, next_habit_id, goals,
                 next_goal_id, call>>

YearNext == MyYear \/ MyHabitYear

YearSpec == YearInit /\ [][YearNext]_vars

\* a calendar was sent, by myyear or by myhabityear
GridSent == reply # NoReply /\ reply.cmd \in {"myyear", "myhabityear"} /\ reply.outcome = "grid"

\* the number of days of the rendered year
DayCount == IF is_leap(year) THEN 366 ELSE 365

\* ceil(n / 14)
RowsFor(n) == (n + 13) \div 14

\* the rows of a grid have the shape the claim gives: ceil(DayCount / 14) rows,
\* 7 + 7 cells in every row but the last, the remaining cells in the last
GridShape(grid) ==
    /\ Len(grid) = RowsFor(DayCount)
    /\ Len(grid) = 27
    /\ \A i \in 1 .. (Len(grid) - 1) : Len(grid[i].first) = 7 /\ Len(grid[i].second) = 7
    /\ Len(grid[Len(grid)].first) + Len(grid[Len(grid)].second)
            = DayCount - 14 * (Len(grid) - 1)
    /\ Len(grid[Len(grid)].first) + Len(grid[Len(grid)].second) \in {1, 2}

(* C9, as stated: for every year and every status map, the empty one       *)
(* included, myyear and myhabityear (given the number of one of the user's *)
(* habits) send a calendar of ceil(day_count / 14) = 27 rows, 14 cells as  *)
(* 7 + 7 in every row but the last and the remaining 1 or 2 in the last.   *)
C9_Original ==
    (reply # NoReply /\ reply.cmd \in {"myyear", "myhabityear"}
        /\ reply.outcome # "not_found") =>
            (reply.outcome = "grid" /\ GridShape(reply.grid))

(* C9, amended: for every year and every status map built from at least    *)
(* one fetched row, the calendar myyear and myhabityear send has exactly   *)
(* ceil(day_count / 14) = 27 rows, 14 cells as 7 + 7 in every row but the  *)
(* last and the remaining 1 or 2 cells in the last; with no row fetched    *)
(* the commands send a notice and no calendar.                             *)
C9_GridRows ==
    /\ GridSent => GridShape(reply.grid)
    /\ (reply # NoReply /\ reply.cmd = "myyear") =>
            (reply.outcome = "grid" <=> \E r \in BagToSet(checkins) : r.user_id = reply.user_id)
    /\ (reply # NoReply /\ reply.cmd = "myhabityear" /\ reply.outcome # "not_found") =>
            (reply.outcome = "grid" <=>
                \E r \in BagToSet(habit_completions) :
                    /\ r.user_id = reply.user_id /\ r.habit_id = reply.habit_id
                    /\ r.date \in Dates /\ YearOf[r.date] = year)

\* the calendar of a habit in a leap year: the last row holds 2 cells
C9_Witness ==
    /\ GridSent
    /\ reply.cmd = "myhabityear"
    /\ DayCount = 366
    /\ Len(reply.grid[27].first) = 2
    /\ Len(reply.grid[27].second) = 0

\* the cells of a grid in the order they are sent
RECURSIVE Cells(_, _)
Cells(grid, i) ==
    IF i > Len(grid) THEN <<>>
    ELSE grid[i].first \o grid[i].second \o Cells(grid, i + 1)

\* the glyph the claim gives date d in the calendar that was sent
StatusGlyph(d) ==
    IF reply.cmd = "myyear"
    THEN LET mine == {r \in BagToSet(checkins) : r.user_id = reply.user_id /\ r.date = d}
         IN  IF mine = {} THEN "white"
             ELSE <<"red", "orange", "yellow", "green", "blue">>[(CHOOSE r \in mine : TRUE).rating]
    ELSE IF \E r \in BagToSet(habit_completions) :
                r.user_id = reply.user_id /\ r.habit_id = reply.habit_id /\ r.date = d
         THEN "green" ELSE "white"

(* C10: in a calendar that myyear or myhabityear sends, the cells are the  *)
(* dates January 1 to December 31 of the rendered year, one cell per date  *)
(* in ascending order, none skipped, repeated or outside the year, and the *)
(* cell of a date shows the glyph of its status, the no-data glyph for a   *)
(* date the status map does not hold.                                      *)
C10_GridCoverage ==
    GridSent =>
        LET cells == Cells(reply.grid, 1)
        IN  /\ Len(cells) = DayCount
            /\ \A i \in 1 .. Len(cells) :
                /\ cells[i].date = date(year, 1, 1) + i - 1
                /\ cells[i].date \in Dates /\ YearOf[cells[i].date] = year
                /\ cells[i].glyph = StatusGlyph(cells[i].date)
            /\ cells[1].date = date(year, 1, 1)
            /\ cells[Len(cells)].date = date(year, 12, 31)

\* the calendar of the check-ins of a leap year with a rating on December 31 and
\* another on a day after the year
C10_Witness ==
    /\ GridSent
    /\ reply.cmd = "myyear"
    /\ DayCount = 366
    /\ LET cells == Cells(reply.grid, 1)
       IN  cells[Len(cells)].glyph # "white" /\ cells[1].glyph = "white"
    /\ \E r \in BagToSet(checkins) : r.user_id = 1 /\ r.date > end_date

----------------------------------------------------------------------------
(* The habit commands: daily, weekly, monthly, myhabits, deletehabit *)

\* the descriptions users give their habits
Descriptions == {"run"}

\* the users whose commands the habit specification follows; the other user owns
\* rows that are in the tables from the start
Callers == {1}

\* the days the clock runs over, from Saturday 2024-08-31 on: Sunday September 1
\* starts a month and Monday September 2 starts a week
ClockSpan == 4
\* the most rows of table habit_completions
MaxCompletions == 3
\* the most habits rows ever inserted
MaxHabitId == 3

ClockStart == date(FirstYear + 1, 8, 31)
ClockDates == ClockStart .. (ClockStart + ClockSpan - 1)

\* the number of rows of a bag of rows
RECURSIVE RowCount(_, _)
RowCount(table, rows) ==
    IF rows = {} THEN 0
    ELSE LET r == CHOOSE x \in rows : TRUE
         IN  CopiesIn(r, table) + RowCount(table, rows \ {r})

\* daily: the rows tested before inserting are those dated today
daily_done_range(today_now) == <<today_now, today_now>>

\* weekly testing for a row dated today, as daily does
weekly_done_range_today_only(today_now) == <<today_now, today_now>>

\* weekly: the rows tested are those of period_start .. period_start + 6 days
weekly_done_range(today_now) ==
    LET period_start == get_current_period_start("weekly", today_now)
    IN  <<period_start, week_period_end(period_start)>>

\* monthly: the rows tested are those of period_start .. the last day of the month
monthly_done_range(today_now) ==
    LET period_start == get_current_period_start("monthly", today_now)
    IN  <<period_start, month_period_end(period_start)>>

\* inserting without selecting first
find_habit_never(user_id, description, kind) == {}

\* SELECT id FROM habits WHERE user_id AND description AND reset_period
find_habit(user_id, description, kind) ==
    {h \in habits : /\ h.user_id = user_id
                    /\ h.description = description
                    /\ h.reset_period = kind}

\* the body the three commands share: find or create the habit of this user,
\* description and kind; with done, insert a completion dated today unless a
\* row of the habit lies in range (the reply to done keeps the handler's today)
HabitCommand(kind, range, user_id, description, mark_done) ==
    IF description = ""
    THEN /\ reply' = [cmd |-> kind, user_id |-> user_id, outcome |-> "usage"]
         /\ UNCHANGED <<habits, habit_completions, next_habit_id>>
    ELSE LET existing == find_habit(user_id, description, kind)
         IN  \E habit_id \in (IF existing = {} THEN {next_habit_id}
                              ELSE {h.id : h \in existing}) :
                /\ IF existing = {}
                   THEN /\ next_habit_id <= MaxHabitId
                        /\ habits' = habits \cup {Habit(habit_id, user_id, description, kind)}
                        /\ next_habit_id' = next_habit_id + 1
                   ELSE UNCHANGED <<habits, next_habit_id>>
                /\ IF mark_done
                   THEN LET already_done ==
                                rows_between(habit_completions, user_id, habit_id,
                                             range[1], range[2]) # {}
                        IN  IF ~already_done
                            THEN /\ BagCardinality(habit_completions) < MaxCompletions
                                 /\ habit_completions' = habit_completions (+)
                                        SetToBag({Completion(user_id, habit_id, clock)})
                                 /\ reply' = [cmd |-> kind, user_id |-> user_id,
                                              habit_id |-> habit_id, mark_done |-> TRUE,
                                              today |-> clock, outcome |-> "marked_done"]
                            ELSE /\ UNCHANGED habit_completions
                                 /\ reply' = [cmd |-> kind, user_id |-> user_id,
                                              habit_id |-> habit_id, mark_done |-> TRUE,
                                              today |-> clock, outcome |-> "already_done"]
                   ELSE /\ UNCHANGED habit_completions
                        /\ reply' = [cmd |-> kind, user_id |-> user_id,
                                     habit_id |-> habit_id, mark_done |-> FALSE,
                                     outcome |-> IF existing = {} THEN "created"
                                                 ELSE "exists"]

Daily ==
    /\ \E user_id \in Callers, description \in Descriptions \cup {""}, mark_done \in BOOLEAN :
        HabitCommand("daily", daily_done_range(clock), user_id, description, mark_done)
    /\ UNCHANGED <<clock, today, checkins, goals, next_goal_id, call>>

Weekly ==
    /\ \E user_id \in Callers, description \in Descriptions \cup {""}, mark_done \in BOOLEAN :
        HabitCommand("weekly", weekly_done_range(clock), user_id, description, mark_done)
    /\ UNCHANGED <<clock, today, checkins, goals, next_goal_id, call>>

Monthly ==
    /\ \E user_id \in Callers, description \in Descriptions \cup {""}, mark_done \in BOOLEAN :
        HabitCommand("monthly", monthly_done_range(clock), user_id, description, mark_done)
    /\ UNCHANGED <<clock, today, checkins, goals, next_goal_id, call>>

\* what myhabits sends: for each of the user's habits in id order, whether it is
\* completed in the period of today
myhabits_reply(user_id) ==
    LET rows == get_user_habits_mapping(user_id)
    IN  IF rows = <<>>
        THEN [cmd |-> "myhabits", user_id |-> user_id, today |-> clock,
              outcome |-> "no_habits"]
        ELSE [cmd |-> "myhabits", user_id |-> user_id, today |-> clock,
              outcome |-> "list",
              list |-> [n \in 1 .. Len(rows) |->
                          [habit_id |-> rows[n].id,
                           reset_period |-> rows[n].reset_period,
                           is_completed |->
                              is_habit_completed_in_period(habit_completions, user_id,
                                  rows[n].id, rows[n].reset_period, clock)]]]

MyHabits ==
    /\ \E user_id \in Callers : reply' = myhabits_reply(user_id)
    /\ UNCHANGED <<clock, today, checkins, habits, habit_completions, next_habit_id, goals,
                 next_goal_id, call>>

\* deletehabit: delete the habits row at the display number, if the user has one
deletehabit(user_id, habit_number) ==
    LET rows == get_user_habits_mapping(user_id)
    IN  IF habit_number \notin 1 .. Len(rows)
        THEN /\ reply' = [cmd |-> "deletehabit", user_id |-> user_id,
                          habit_number |-> habit_number, outcome |-> "not_found"]
             /\ UNCHANGED habits
        ELSE /\ habits' = {h \in habits : ~(h.id = rows[habit_number].id
                                            /\ h.user_id = user_id)}
             /\ reply' = [cmd |-> "deletehabit", user_id |-> user_id,
                          habit_number |-> habit_number,
                          habit_id |-> rows[habit_number].id, outcome |-> "deleted"]

DeleteHabit ==
    /\ \E user_id \in Callers, habit_number \in 0 .. 2 : deletehabit(user_id, habit_number)
    /\ UNCHANGED <<clock, today, checkins, habit_completions, next_habit_id, goals,
                   next_goal_id, call>>

\* midnight: the clock advances to the next day (several in a row, with no command
\* between them, advance it by several days)
Tick ==
    /\ clock + 1 \in ClockDates
    /\ clock' = clock + 1
    /\ UNCHANGED <<today, checkins, habits, habit_completions, next_habit_id, goals,
                 next_goal_id, reply, call>>

Init ==
    /\ clock = ClockStart
    /\ today = clock
    /\ checkins = EmptyBag
    /\ habits = {Habit(1, 2, "run", "weekly")}
    /\ habit_completions = SetToBag({Completion(2, 1, ClockStart - 1)})
    /\ next_habit_id = 2
    /\ goals = {}
    /\ next_goal_id = 1
    /\ reply = NoReply
    /\ call = [fn |-> Null]

Next == Daily \/ Weekly \/ Monthly \/ MyHabits \/ DeleteHabit \/ Tick

Spec == Init /\ [][Next]_vars

\* the number of completion rows of a (user, habit) pair dated within first..last
CompletionsWithin(user_id, habit_id, first, last) ==
    RowCount(habit_completions,
             {r \in BagToSet(habit_completions) :
                 /\ r.user_id = user_id /\ r.habit_id = habit_id
                 /\ first <= r.date /\ r.date <= last})

\* no habit has two completion rows within one of its periods
AtMostOnePerPeriod ==
    \A h \in habits, d \in ClockDates :
        CompletionsWithin(h.user_id, h.id, PeriodFirst(h.reset_period, d),
                          PeriodLast(h.reset_period, d)) <= 1

\* a step of a daily, weekly or monthly command given done, for a habit that has a
\* completion row in the period of today, inserts nothing and answers already done
DoneInSatisfiedPeriod ==
    (/\ clock' = clock
     /\ reply'.cmd \in Kinds
     /\ reply'.outcome \in {"marked_done", "already_done"}
     /\ CompletionsWithin(reply'.user_id, reply'.habit_id,
                          PeriodFirst(reply'.cmd, clock),
                          PeriodLast(reply'.cmd, clock)) >= 1)
        => (habit_completions' = habit_completions /\ reply'.outcome = "already_done")

(* C1: whatever done commands are issued and however the clock advances,   *)
(* the completion table never holds two records of one (user, habit) in    *)
(* one period of the habit's kind (day, Monday-to-Sunday week, calendar    *)
(* month), and a done command issued in a period that already has a record *)
(* inserts nothing and answers already marked as done.                     *)
C1_MarkDoneIdempotent == []AtMostOnePerPeriod /\ [][DoneInSatisfiedPeriod]_vars

\* a monthly habit done in August and in September, and answered already done on
\* a later day of September
C1_Witness ==
    /\ reply # NoReply
    /\ reply.cmd = "monthly"
    /\ reply.outcome = "already_done"
    /\ reply.today = clock
    /\ CompletionsWithin(reply.user_id, reply.habit_id, ClockStart, clock - 1) = 2
    /\ CompletionsWithin(reply.user_id, reply.habit_id, clock, clock) = 0

----------------------------------------------------------------------------
(* The check-in commands: checkin and updatecheckin.  checkin names the    *)
(* module-level today, assigned once when the module is loaded; every      *)
(* other handler, and get_streak, assigns a today of its own from          *)
(* date.today().                                                           *)

\* the number of days the clock of the check-in specification runs over
CheckinSpan == 4

\* Monday 2024-12-30 .. Thursday 2025-01-02
CheckinStart == date(FirstYear + 1, 12, 30)
CheckinDates == CheckinStart .. (CheckinStart + CheckinSpan - 1)

\* the ratings given to the two commands: two below and above the range, two within
Ratings == {0, 1, 5, 6}

\* the test both commands open with
invalid_rating_upper_only(rating) == rating > 5

invalid_rating(rating) == rating < 1 \/ rating > 5

\* the date checkin selects by, reading the clock when the command runs
checkin_select_date_fresh == clock

\* the date checkin selects the existing row by: the module-level today
checkin_select_date == today

\* the date checkin inserts: the module-level today
checkin_insert_date == today

\* the rows of a user and a date
checkins_on(table, user_id, d) ==
    {r \in BagToSet(table) : r.user_id = user_id /\ r.date = d}

\* checkin: refuse a rating outside 1 .. 5; refuse when a row of the user and
\* the date exists; else insert the row, then answer by the streak that
\* get_streak computes from the table and its own date.today()
checkin(user_id, rating) ==
    IF invalid_rating(rating)
    THEN /\ reply' = [cmd |-> "checkin", user_id |-> user_id, rating |-> rating,
                      today |-> clock, outcome |-> "invalid_rating"]
         /\ UNCHANGED checkins
    ELSE IF checkins_on(checkins, user_id, checkin_select_date) # {}
         THEN /\ reply' = [cmd |-> "checkin", user_id |-> user_id, rating |-> rating,
                           today |-> clock, outcome |-> "already_checked_in"]
              /\ UNCHANGED checkins
         ELSE LET inserted == checkins (+)
                                SetToBag({Checkin(user_id, checkin_insert_date, rating)})
                  streaks == get_streak(inserted, user_id, clock)
              IN  /\ checkins' = inserted
                  /\ reply' = [cmd |-> "checkin", user_id |-> user_id, rating |-> rating,
                               today |-> clock,
                               current_streak |-> streaks[1],
                               longest_streak |-> streaks[2],
                               outcome |-> IF streaks[1] = 0 THEN "no_streak_yet"
                                           ELSE "recorded"]

\* UPDATE checkins SET rating WHERE user_id AND date
update_rating(table, user_id, d, rating) ==
    LET hit == checkins_on(table, user_id, d)
    IN  IF hit = {} THEN table
        ELSE (table (-) [r \in hit |-> table[r]])
                (+) [r \in {Checkin(user_id, d, rating)} |-> RowCount(table, hit)]

\* updatecheckin: refuse a rating outside 1 .. 5; refuse when the user has no row
\* dated date.today(); else set the rating of that row
updatecheckin(user_id, rating) ==
    IF invalid_rating(rating)
    THEN /\ reply' = [cmd |-> "updatecheckin", user_id |-> user_id, rating |-> rating,
                      today |-> clock, outcome |-> "invalid_rating"]
         /\ UNCHANGED checkins
    ELSE IF checkins_on(checkins, user_id, clock) = {}
         THEN /\ reply' = [cmd |-> "updatecheckin", user_id |-> user_id,
                           rating |-> rating, today |-> clock,
                           outcome |-> "not_checked_in"]
              /\ UNCHANGED checkins
         ELSE /\ checkins' = update_rating(checkins, user_id, clock, rating)
              /\ reply' = [cmd |-> "updatecheckin", user_id |-> user_id,
                           rating |-> rating, today |-> clock, outcome |-> "updated"]

DoCheckin ==
    /\ \E user_id \in Callers, rating \in Ratings : checkin(user_id, rating)
    /\ UNCHANGED <<clock, today, habits, habit_completions, next_habit_id, goals,
                   next_goal_id, call>>

DoUpdateCheckin ==
    /\ \E user_id \in Callers, rating \in Ratings : updatecheckin(user_id, rating)
    /\ UNCHANGED <<clock, today, habits, habit_completions, next_habit_id, goals,
                   next_goal_id, call>>

\* midnight in the check-in specification
Midnight ==
    /\ clock + 1 \in CheckinDates
    /\ clock' = clock + 1
    /\ UNCHANGED <<today, checkins, habits, habit_completions, next_habit_id, goals,
                   next_goal_id, reply, call>>

\* the process is started again: the module is loaded and today is assigned anew
Restart ==
    /\ today # clock
    /\ today' = clock
    /\ UNCHANGED <<clock, checkins, habits, habit_completions, next_habit_id, goals,
                   next_goal_id, reply, call>>

\* the process starts on the first day; the other user has checked in on that day
\* and the day before, the caller on the day before or not at all
CheckinInit ==
    /\ clock = CheckinStart
    /\ today = clock
    /\ \E D \in SUBSET {CheckinStart - 1} :
          checkins = SetToBag({Checkin(2, CheckinStart - 1, 3), Checkin(2, CheckinStart, 3)}
                              \cup {Checkin(1, d, 3) : d \in D})
    /\ habits = {}
    /\ habit_completions = EmptyBag
    /\ next_habit_id = 1
    /\ goals = {}
    /\ next_goal_id = 1
    /\ reply = NoReply
    /\ call = [fn |-> Null]

CheckinNext == DoCheckin \/ DoUpdateCheckin \/ Midnight \/ Restart

CheckinSpec == CheckinInit /\ [][CheckinNext]_vars

\* the number of rows of a user and a date
CheckinsOn(table, user_id, d) == RowCount(table, checkins_on(table, user_id, d))

\* the dates a check-in row can bear in the check-in specification
StoredDates == (CheckinStart - 1) .. (CheckinStart + CheckinSpan - 1)

OnePerUserDate ==
    \A user_id \in Users, d \in StoredDates : CheckinsOn(checkins, user_id, d) <= 1

\* a step of checkin leaves every (user, date) that has a row with the rows it has
CheckinInsertsNoSecond ==
    (reply'.cmd = "checkin")
        => \A user_id \in Users, d \in StoredDates :
              CheckinsOn(checkins, user_id, d) >= 1
                 => CheckinsOn(checkins', user_id, d) = CheckinsOn(checkins, user_id, d)

\* a step of updatecheckin leaves every (user, date) with the rows it has
UpdateInsertsNothing ==
    (reply'.cmd = "updatecheckin")
        => \A user_id \in Users, d \in StoredDates :
              CheckinsOn(checkins', user_id, d) = CheckinsOn(checkins, user_id, d)

(* C11: whatever checkin and updatecheckin commands are issued, by         *)
(* whichever users, and however the clock advances between them, the       *)
(* check-ins table holds at most one record per (user, date); a checkin    *)
(* for a (user, date) that already has a record inserts nothing, and       *)
(* updatecheckin never inserts a record.                                   *)
C11_CheckinUnique ==
    /\ []OnePerUserDate
    /\ [][CheckinInsertsNoSecond /\ UpdateInsertsNothing]_vars

\* the caller is refused a second check-in on a date, having rows on two dates, one
\* of them updated to another rating
C11_Witness ==
    /\ reply # NoReply
    /\ reply.cmd = "checkin"
    /\ reply.outcome = "already_checked_in"
    /\ \E d1, d2 \in CheckinDates :
          /\ d1 < d2
          /\ CheckinsOn(checkins, 1, d1) = 1
          /\ CheckinsOn(checkins, 1, d2) = 1
          /\ \E r \in checkins_on(checkins, 1, d1) \cup checkins_on(checkins, 1, d2) :
                r.rating = 5

----------------------------------------------------------------------------
(* The goal commands: goal, mygoals, delete, updategoal *)

\* the most goals rows ever inserted
MaxGoalId == 3
\* how far below zero the specification follows a goal's progress
MaxDeficit == 1

\* the targets given to goal and the increments given to updategoal
GoalNumbers == {-1, 0, 2}
Increments == {-1, 2}

GoalRow(id, user_id, description, progress, total) ==
    [id |-> id, user_id |-> user_id, description |-> description,
     progress |-> progress, total |-> total]

\* SELECT ... FROM goals WHERE user_id ORDER BY id: the row at index n is the one
\* the display number n maps to
get_user_goals_mapping(user_id) ==
    SortedById({g \in goals : g.user_id = user_id})

\* goal: the argument splits into a description and a number, or the format is
\* refused; the row is inserted with the number as total, whatever the number
goal(user_id, well_formed, description, number) ==
    IF ~well_formed
    THEN /\ reply' = [cmd |-> "goal", user_id |-> user_id, outcome |-> "invalid_format"]
         /\ UNCHANGED <<goals, next_goal_id>>
    ELSE /\ next_goal_id <= MaxGoalId
         /\ goals' = goals \cup {GoalRow(next_goal_id, user_id, description, 0, number)}
         /\ next_goal_id' = next_goal_id + 1
         /\ reply' = [cmd |-> "goal", user_id |-> user_id, number |-> number,
                      outcome |-> "goal_set"]

\* what mygoals sends: the user's goals in id order
mygoals_reply(user_id) ==
    LET rows == get_user_goals_mapping(user_id)
    IN  IF rows = <<>>
        THEN [cmd |-> "mygoals", user_id |-> user_id, outcome |-> "no_goals"]
        ELSE [cmd |-> "mygoals", user_id |-> user_id, outcome |-> "list",
              list |-> [n \in 1 .. Len(rows) |->
                          [progress |-> rows[n].progress, total |-> rows[n].total]]]

\* delete reading its number as the id of the row
delete_by_db_id(user_id, id) ==
    IF id \notin {g.id : g \in goals}
    THEN /\ reply' = [cmd |-> "delete", user_id |-> user_id, id |-> id,
                      outcome |-> "not_found"]
         /\ UNCHANGED goals
    ELSE /\ goals' = {g \in goals : g.id # id}
         /\ reply' = [cmd |-> "delete", user_id |-> user_id, id |-> id,
                      db_id |-> id, outcome |-> "deleted"]

\* delete: delete the goals row at the display number, if the user has one
delete(user_id, id) ==
    LET rows == get_user_goals_mapping(user_id)
    IN  IF id \notin 1 .. Len(rows)
        THEN /\ reply' = [cmd |-> "delete", user_id |-> user_id, id |-> id,
                          outcome |-> "not_found"]
             /\ UNCHANGED goals
        ELSE LET db_id == rows[id].id
                 deleted == {g \in goals : g.id = db_id /\ g.user_id = user_id}
             IN  /\ goals' = goals \ deleted
                 /\ reply' = [cmd |-> "delete", user_id |-> user_id, id |-> id,
                              db_id |-> db_id,
                              outcome |-> IF deleted # {} THEN "deleted"
                                          ELSE "not_yours"]

\* SQL LEAST of two integers
LEAST(a, b) == IF a <= b THEN a ELSE b

\* updategoal: add the increment to the progress of the row at the display
\* number, capped at the row's total
updategoal(user_id, well_formed, id, progress_increment) ==
    IF ~well_formed
    THEN /\ reply' = [cmd |-> "updategoal", user_id |-> user_id,
                      outcome |-> "invalid_format"]
         /\ UNCHANGED goals
    ELSE LET rows == get_user_goals_mapping(user_id)
         IN  IF id \notin 1 .. Len(rows)
             THEN /\ reply' = [cmd |-> "updategoal", user_id |-> user_id, id |-> id,
                               outcome |-> "not_found"]
                  /\ UNCHANGED goals
             ELSE LET db_id == rows[id].id
                      progress == LEAST(rows[id].progress + progress_increment,
                                        rows[id].total)
                  IN  /\ progress >= 0 - MaxDeficit
                      /\ goals' = {IF g.id = db_id /\ g.user_id = user_id
                                   THEN [g EXCEPT !.progress = progress] ELSE g :
                                   g \in goals}
                      /\ reply' = [cmd |-> "updategoal", user_id |-> user_id, id |-> id,
                                   progress |-> progress, total |-> rows[id].total,
                                   outcome |-> "updated"]

SetGoal ==
    /\ \E user_id \in Callers, well_formed \in BOOLEAN, number \in GoalNumbers :
          goal(user_id, well_formed, "read", number)
    /\ UNCHANGED <<clock, today, checkins, habits, habit_completions, next_habit_id, call>>

MyGoals ==
    /\ \E user_id \in Callers : reply' = mygoals_reply(user_id)
    /\ UNCHANGED <<clock, today, checkins, habits, habit_completions, next_habit_id, goals,
                   next_goal_id, call>>

DeleteGoal ==
    /\ \E user_id \in Callers, id \in 0 .. MaxGoalId : delete(user_id, id)
    /\ UNCHANGED <<clock, today, checkins, habits, habit_completions, next_habit_id,
                   next_goal_id, call>>

UpdateGoal ==
    /\ \E user_id \in Callers, well_formed \in BOOLEAN, id \in 0 .. MaxGoalId,
          progress_increment \in Increments :
          updategoal(user_id, well_formed, id, progress_increment)
    /\ UNCHANGED <<clock, today, checkins, habits, habit_completions, next_habit_id,
                   next_goal_id, call>>

\* the other user has set a goal of 2 and is at 1 of it
GoalInit ==
    /\ clock = date(FirstYear, 1, 1)
    /\ today = clock
    /\ checkins = EmptyBag
    /\ habits = {}
    /\ habit_completions = EmptyBag
    /\ next_habit_id = 1
    /\ goals = {GoalRow(1, 2, "read", 1, 2)}
    /\ next_goal_id = 2
    /\ reply = NoReply
    /\ call = [fn |-> Null]

GoalNext == SetGoal \/ MyGoals \/ DeleteGoal \/ UpdateGoal

GoalSpec == GoalInit /\ [][GoalNext]_vars

(* C12: after any sequence of goal, updategoal and delete commands with    *)
(* arbitrary integer arguments (zero and negative targets, negative        *)
(* increments), every stored goal has total > 0 and progress >= 0.         *)
C12_GoalRanges == \A g \in goals : g.total > 0 /\ g.progress >= 0

----------------------------------------------------------------------------
(* DeleteSpec: delete and deletehabit, by either user, on tables that hold *)
(* rows of both users                                                      *)

\* the number of ids a goals row, or a habits row, has at the start
MaxRows == 3

\* who owns the row of each id at the start: a user, or 0 when the row is gone
Owners == [1 .. MaxRows -> {0} \cup Users]

\* the habits row of an id: no two of them agree in description and kind
KindAt(i) == <<"daily", "weekly", "monthly">>[((i - 1) % 3) + 1]
DescriptionAt(i) == IF i <= 3 THEN "run" ELSE "swim"

AnyDelete ==
    /\ \E user_id \in Users, id \in 0 .. MaxRows + 1 : delete(user_id, id)
    /\ UNCHANGED <<clock, today, checkins, habits, habit_completions, next_habit_id,
                   next_goal_id, call>>

AnyDeleteHabit ==
    /\ \E user_id \in Users, habit_number \in 0 .. MaxRows + 1 :
          deletehabit(user_id, habit_number)
    /\ UNCHANGED <<clock, today, checkins, habit_completions, next_habit_id, goals,
                   next_goal_id, call>>

DeleteInit ==
    /\ clock = date(FirstYear, 1, 1)
    /\ today = clock
    /\ checkins = EmptyBag
    /\ habit_completions = EmptyBag
    /\ \E owner \in Owners :
          goals = {GoalRow(i, owner[i], "read", 0, 2) : i \in {j \in 1 .. MaxRows : owner[j] # 0}}
    /\ \E owner \in Owners :
          habits = {Habit(i, owner[i], DescriptionAt(i), KindAt(i)) :
                       i \in {j \in 1 .. MaxRows : owner[j] # 0}}
    /\ next_goal_id = MaxRows + 1
    /\ next_habit_id = MaxRows + 1
    /\ reply = NoReply
    /\ call = [fn |-> Null]

DeleteNext == AnyDelete \/ AnyDeleteHabit

DeleteSpec == DeleteInit /\ [][DeleteNext]_vars

\* the row at the 1-based position n of a set of rows taken in ascending id: the
\* one with exactly n rows of the set at or below its id
RowAt(rows, n) == {r \in rows : Cardinality({x \in rows : x.id <= r.id}) = n}

\* a step of delete removes the caller's n-th goal and nothing else, or, when the
\* caller has no n-th goal, removes nothing and answers not found
DeleteRemovesOwnNth ==
    (reply'.cmd = "delete")
        => LET target == RowAt({g \in goals : g.user_id = reply'.user_id}, reply'.id)
           IN  /\ habits' = habits
               /\ IF target # {}
                  THEN goals' = goals \ target /\ reply'.outcome = "deleted"
                  ELSE goals' = goals /\ reply'.outcome = "not_found"

\* the same of deletehabit and the caller's n-th habit
DeleteHabitRemovesOwnNth ==
    (reply'.cmd = "deletehabit")
        => LET target == RowAt({h \in habits : h.user_id = reply'.user_id},
                               reply'.habit_number)
           IN  /\ goals' = goals
               /\ IF target # {}
                  THEN habits' = habits \ target /\ reply'.outcome = "deleted"
                  ELSE habits' = habits /\ reply'.outcome = "not_found"

(* C13: '!delete n' (and '!deletehabit n') issued by user U removes        *)
(* exactly the goal (habit) at 1-based position n of U's own rows ordered  *)
(* by id and leaves every other row, of U and of every other user,         *)
(* unchanged; when n is not in 1 .. count of U's rows nothing is deleted   *)
(* and a 'not found' message is sent.                                      *)
C13_OwnerOnlyDeletion == [][DeleteRemovesOwnNth /\ DeleteHabitRemovesOwnNth]_vars

\* user 1 deleted their first goal, the row of id 2, while the row of id 1 is the
\* other user's and user 1 keeps the row of id 3
C13_Witness ==
    /\ reply # NoReply
    /\ reply.cmd = "delete"
    /\ reply.outcome = "deleted"
    /\ reply.user_id = 1
    /\ reply.id = 1
    /\ reply.db_id = 2
    /\ {<<g.id, g.user_id>> : g \in goals} = {<<1, 2>>, <<3, 1>>}

----------------------------------------------------------------------------
(* Habit rows under the habit commands *)

SameKey(g, h) ==
    /\ g.user_id = h.user_id
    /\ g.description = h.description
    /\ g.reset_period = h.reset_period

\* no two habits rows of one user agree in description and kind
UniqueHabitKey == \A g, h \in habits : SameKey(g, h) => g = h

\* a step that adds a habits row is a step of the command of the row's kind, by
\* the row's user, who had no row of that description and kind
CreatedOnlyWhenAbsent ==
    \A h \in habits' \ habits :
        /\ reply'.cmd = h.reset_period
        /\ reply'.user_id = h.user_id
        /\ \A g \in habits : ~SameKey(g, h)

\* a step that removes or changes a habits row is a step of deletehabit
OnlyDeleteHabitRemoves ==
    (habits \ habits' # {}) => (reply'.cmd = "deletehabit" /\ reply'.outcome = "deleted")

(* C14: a recurrence command (daily, weekly, monthly) creates a habit only *)
(* when the user has no habit with that exact description and that kind,   *)
(* so a user never holds two habits with the same (description, kind); and *)
(* no command other than deletehabit changes or removes an existing habit  *)
(* row.                                                                    *)
C14_HabitCreation ==
    /\ []UniqueHabitKey
    /\ [][CreatedOnlyWhenAbsent /\ OnlyDeleteHabitRemoves]_vars

\* the caller's weekly command finds the weekly habit they already have, beside
\* their daily habit and the other user's weekly habit, all of one description
C14_Witness ==
    /\ reply # NoReply
    /\ reply.cmd = "weekly"
    /\ reply.outcome \in {"exists", "marked_done", "already_done"}
    /\ reply.user_id = 1
    /\ {<<h.user_id, h.description, h.reset_period>> : h \in habits}
          = {<<2, "run", "weekly">>, <<1, "run", "weekly">>, <<1, "run", "daily">>}
    /\ \E h \in habits : h.id = reply.habit_id /\ h.id < next_habit_id - 1

----------------------------------------------------------------------------
(* The date of a completion row and what myhabits reports of it *)

\* a step that inserts into habit_completions inserts one row, of the habit the
\* command names, dated the day the command runs
StampedWithCommandDate ==
    (habit_completions' # habit_completions)
        => /\ reply'.cmd \in Kinds
           /\ reply'.outcome = "marked_done"
           /\ habit_completions' = habit_completions (+)
                 SetToBag({Completion(reply'.user_id, reply'.habit_id, clock)})

\* what myhabits has just listed: a habit is completed exactly when it has a row
\* dated within the day, Monday-to-Sunday week or calendar month of today
MyHabitsShowsPeriod ==
    (reply.cmd = "myhabits" /\ reply.outcome = "list" /\ reply.today = clock)
        => \A n \in DOMAIN reply.list :
              LET item == reply.list[n]
              IN  item.is_completed
                     <=> CompletionsWithin(reply.user_id, item.habit_id,
                                           PeriodFirst(item.reset_period, clock),
                                           PeriodLast(item.reset_period, clock)) >= 1

(* C15: a weekly or monthly done command that inserts stamps the record    *)
(* with the date on which the command ran, not with the first day of the   *)
(* period; from then on myhabits reports the habit as completed on every   *)
(* later day of the same period, and as not completed on the first day of  *)
(* the next period unless a new done command is issued.                    *)
C15_ActionDate == []MyHabitsShowsPeriod /\ [][StampedWithCommandDate]_vars

\* Monday September 2: myhabits lists the caller's monthly habit, done on Sunday
\* September 1, as completed and their weekly habit, done that Sunday too, as
\* not completed
C15_Witness ==
    /\ reply # NoReply
    /\ reply.cmd = "myhabits"
    /\ reply.outcome = "list"
    /\ reply.today = clock
    /\ clock = ClockStart + 2
    /\ \E m, w \in DOMAIN reply.list :
          /\ reply.list[m].reset_period = "monthly"
          /\ reply.list[m].is_completed
          /\ CompletionsWithin(reply.user_id, reply.list[m].habit_id, clock - 1, clock - 1) = 1
          /\ CompletionsWithin(reply.user_id, reply.list[m].habit_id, clock, clock) = 0
          /\ reply.list[w].reset_period = "weekly"
          /\ ~reply.list[w].is_completed
          /\ CompletionsWithin(reply.user_id, reply.list[w].habit_id, clock - 1, clock - 1) = 1

----------------------------------------------------------------------------
(* FailureSpec: the handlers over a database that may fail.  A failed      *)
(* connection or statement raises; the routine whose try block encloses it *)
(* takes its except branch.  db_failed in a reply records that an          *)
(* operation of the command failed.                                        *)

\* get_user_goals_mapping: its except branch returns no rows and no mapping
get_user_goals_mapping_db(user_id, db_ok) ==
    IF db_ok THEN get_user_goals_mapping(user_id) ELSE <<>>

\* get_user_habits_mapping: its except branch returns no rows and no mapping
get_user_habits_mapping_db(user_id, db_ok) ==
    IF db_ok THEN get_user_habits_mapping(user_id) ELSE <<>>

\* is_habit_completed_in_period: its except branch returns False
is_habit_completed_in_period_db(table, user_id, habit_id, reset_period, target_date, db_ok) ==
    IF db_ok
    THEN is_habit_completed_in_period(table, user_id, habit_id, reset_period, target_date)
    ELSE FALSE

\* get_streak: its except branch returns 0, 0
get_streak_db(table, user_id, today_now, db_ok) ==
    IF db_ok THEN get_streak(table, user_id, today_now) ELSE <<0, 0>>

\* goal: the INSERT is inside the handler's own try block
goal_db(user_id, description, number, db_ok) ==
    IF ~db_ok
    THEN /\ reply' = [cmd |-> "goal", user_id |-> user_id, db_failed |-> TRUE,
                      outcome |-> "failed"]
         /\ UNCHANGED <<goals, next_goal_id>>
    ELSE /\ next_goal_id <= MaxGoalId
         /\ goals' = goals \cup {GoalRow(next_goal_id, user_id, description, 0, number)}
         /\ next_goal_id' = next_goal_id + 1
         /\ reply' = [cmd |-> "goal", user_id |-> user_id, db_failed |-> FALSE,
                      outcome |-> "goal_set"]

\* mygoals: the only database access is the helper's
mygoals_db(user_id, db_ok) ==
    LET rows == get_user_goals_mapping_db(user_id, db_ok)
    IN  IF rows = <<>>
        THEN [cmd |-> "mygoals", user_id |-> user_id, db_failed |-> ~db_ok,
              outcome |-> "no_goals"]
        ELSE [cmd |-> "mygoals", user_id |-> user_id, db_failed |-> ~db_ok,
              outcome |-> "list",
              list |-> [n \in 1 .. Len(rows) |->
                          [progress |-> rows[n].progress, total |-> rows[n].total]]]

\* delete: the helper's read, then the DELETE inside the handler's own try block
delete_db(user_id, id, read_ok, write_ok) ==
    LET rows == get_user_goals_mapping_db(user_id, read_ok)
    IN  IF id \notin 1 .. Len(rows)
        THEN /\ reply' = [cmd |-> "delete", user_id |-> user_id, id |-> id,
                          db_failed |-> ~read_ok, outcome |-> "not_found"]
             /\ UNCHANGED goals
        ELSE IF ~write_ok
             THEN /\ reply' = [cmd |-> "delete", user_id |-> user_id, id |-> id,
                               db_failed |-> TRUE, outcome |-> "failed"]
                  /\ UNCHANGED goals
             ELSE /\ goals' = {g \in goals : ~(g.id = rows[id].id /\ g.user_id = user_id)}
                  /\ reply' = [cmd |-> "delete", user_id |-> user_id, id |-> id,
                               db_failed |-> FALSE, outcome |-> "deleted"]

\* myhabits: the helper's read, then one call of the oracle per habit
myhabits_db(user_id, mapping_ok, oracle_ok) ==
    LET rows == get_user_habits_mapping_db(user_id, mapping_ok)
    IN  IF rows = <<>>
        THEN [cmd |-> "myhabits", user_id |-> user_id, db_failed |-> ~mapping_ok,
              outcome |-> "no_habits"]
        ELSE [cmd |-> "myhabits", user_id |-> user_id, db_failed |-> ~oracle_ok,
              outcome |-> "list",
              list |-> [n \in 1 .. Len(rows) |->
                          [habit_id |-> rows[n].id,
                           reset_period |-> rows[n].reset_period,
                           is_completed |->
                              is_habit_completed_in_period_db(habit_completions, user_id,
                                  rows[n].id, rows[n].reset_period, clock, oracle_ok)]]]

\* checkin: the SELECT and the INSERT inside the handler's own try block, then
\* get_streak
checkin_db(user_id, rating, write_ok, streak_ok) ==
    IF invalid_rating(rating)
    THEN /\ reply' = [cmd |-> "checkin", user_id |-> user_id, db_failed |-> FALSE,
                      outcome |-> "invalid_rating"]
         /\ UNCHANGED checkins
    ELSE IF ~write_ok
         THEN /\ reply' = [cmd |-> "checkin", user_id |-> user_id, db_failed |-> TRUE,
                           outcome |-> "failed"]
              /\ UNCHANGED checkins
         ELSE IF checkins_on(checkins, user_id, checkin_select_date) # {}
              THEN /\ reply' = [cmd |-> "checkin", user_id |-> user_id,
                                db_failed |-> FALSE, outcome |-> "already_checked_in"]
                   /\ UNCHANGED checkins
              ELSE LET inserted == checkins (+)
                                SetToBag({Checkin(user_id, checkin_insert_date, rating)})
                       streaks == get_streak_db(inserted, user_id, clock, streak_ok)
                   IN  /\ checkins' = inserted
                       /\ reply' = [cmd |-> "checkin", user_id |-> user_id,
                                    db_failed |-> ~streak_ok,
                                    current_streak |-> streaks[1],
                                    outcome |-> IF streaks[1] = 0 THEN "no_streak_yet"
                                                ELSE "recorded"]

GoalDb ==
    /\ \E user_id \in Callers, db_ok \in BOOLEAN : goal_db(user_id, "read", 2, db_ok)
    /\ UNCHANGED <<clock, today, checkins, habits, habit_completions, next_habit_id, call>>

MyGoalsDb ==
    /\ \E user_id \in Callers, db_ok \in BOOLEAN : reply' = mygoals_db(user_id, db_ok)
    /\ UNCHANGED <<clock, today, checkins, habits, habit_completions, next_habit_id, goals,
                   next_goal_id, call>>

DeleteDb ==
    /\ \E user_id \in Callers, id \in 0 .. MaxGoalId, read_ok \in BOOLEAN, write_ok \in BOOLEAN :
          delete_db(user_id, id, read_ok, write_ok)
    /\ UNCHANGED <<clock, today, checkins, habits, habit_completions, next_habit_id,
                   next_goal_id, call>>

MyHabitsDb ==
    /\ \E user_id \in Callers, mapping_ok \in BOOLEAN, oracle_ok \in BOOLEAN :
          reply' = myhabits_db(user_id, mapping_ok, oracle_ok)
    /\ UNCHANGED <<clock, today, checkins, habits, habit_completions, next_habit_id, goals,
                   next_goal_id, call>>

CheckinDb ==
    /\ \E user_id \in Callers, rating \in Ratings, write_ok \in BOOLEAN, streak_ok \in BOOLEAN :
          checkin_db(user_id, rating, write_ok, streak_ok)
    /\ UNCHANGED <<clock, today, habits, habit_completions, next_habit_id, goals,
                   next_goal_id, call>>

\* the caller has a goal, a weekly habit done today, and a check-in of yesterday
FailureInit ==
    /\ clock = CheckinStart
    /\ today = clock
    /\ checkins = SetToBag({Checkin(1, CheckinStart - 1, 3)})
    /\ habits = {Habit(1, 1, "run", "weekly")}
    /\ habit_completions = SetToBag({Completion(1, 1, CheckinStart)})
    /\ next_habit_id = 2
    /\ goals = {GoalRow(1, 1, "read", 0, 2)}
    /\ next_goal_id = 2
    /\ reply = NoReply
    /\ call = [fn |-> Null]

FailureNext == GoalDb \/ MyGoalsDb \/ DeleteDb \/ MyHabitsDb \/ CheckinDb

FailureSpec == FailureInit /\ [][FailureNext]_vars

(* C16: whenever a persistence operation fails while a command is handled, *)
(* the handler sends that command's fixed 'Failed to ...' message and no   *)
(* other outcome; a failed read is never reported as 'no goals / habits    *)
(* yet', as 'number not found', as a habit being not completed, or as a    *)
(* streak of 0.                                                            *)
C16_FailureReported ==
    (reply # NoReply /\ reply.db_failed) => reply.outcome = "failed"

----------------------------------------------------------------------------
(* Ratings of the stored check-ins *)

RatingsInRange == \A r \in BagToSet(checkins) : r.rating \in 1 .. 5

\* a step of checkin or updatecheckin given a rating outside 1 .. 5 answers
\* invalid rating and leaves the table as it is
OutOfRangeRejected ==
    (reply'.cmd \in {"checkin", "updatecheckin"} /\ reply'.rating \notin 1 .. 5)
        => (reply'.outcome = "invalid_rating" /\ checkins' = checkins)

(* C17: every stored check-in has a rating in 1 .. 5; a checkin or         *)
(* updatecheckin command with a rating below 1 or above 5 is rejected with *)
(* the invalid-rating message and leaves the table unchanged.              *)
C17_RatingRange == []RatingsInRange /\ [][OutOfRangeRejected]_vars

\* updatecheckin 0 is refused on a day for which the caller holds a check-in
\* rated 5, beside one rated 1 on another day
C17_Witness ==
    /\ reply # NoReply
    /\ reply.cmd = "updatecheckin"
    /\ reply.rating = 0
    /\ reply.outcome = "invalid_rating"
    /\ reply.today = clock
    /\ \E r \in checkins_on(checkins, 1, clock) : r.rating = 5
    /\ \E r \in BagToSet(checkins) : r.user_id = 1 /\ r.rating = 1

----------------------------------------------------------------------------
(* The date of a check-in and the streak sent after it *)

\* a step of checkin with a rating in 1 .. 5, by a user without a row dated the
\* day of the command, is accepted and leaves the user with a row of that day
AcceptedOnCurrentDate ==
    (/\ reply'.cmd = "checkin"
     /\ clock' = clock
     /\ today' = today
     /\ reply'.rating \in 1 .. 5
     /\ CheckinsOn(checkins, reply'.user_id, clock) = 0)
        => /\ reply'.outcome \in {"recorded", "no_streak_yet"}
           /\ CheckinsOn(checkins', reply'.user_id, clock) = 1

(* C18: for any number of days elapsed since the process started, a        *)
(* checkin by a user who has no check-in on the current calendar date is   *)
(* accepted and stores a record dated with the current calendar date, so   *)
(* that updatecheckin on the same day finds it.                            *)
C18_CheckinFollowsClock == [][AcceptedOnCurrentDate]_vars

(* C19: right after a check-in is inserted, the current streak computed    *)
(* for that user is at least 1 and at most the longest streak, so the 'no  *)
(* streak yet' reply is never sent after a successful check-in.            *)
C19_StreakAfterCheckin ==
    (reply.cmd = "checkin" /\ reply.outcome \in {"recorded", "no_streak_yet"})
        => /\ reply.outcome = "recorded"
           /\ reply.current_streak >= 1
           /\ reply.current_streak <= reply.longest_streak

----------------------------------------------------------------------------
(* NewYearSpec: myyear and myhabityear while the clock passes New Year.    *)
(* Both render start_date .. end_date, the module-level dates assigned     *)
(* when the module is loaded.  The reply keeps the day the command ran.    *)

MyYearNow ==
    /\ reply' = [today |-> clock] @@ myyear_reply(checkins, 1)
    /\ UNCHANGED <<clock, today, checkins, habits, habit_completions, next_habit_id, goals,
                   next_goal_id, call>>

MyHabitYearNow ==
    /\ \E habit_number \in 0 .. 2 :
          reply' = [today |-> clock] @@ myhabityear_reply(1, habit_number)
    /\ UNCHANGED <<clock, today, checkins, habits, habit_completions, next_habit_id, goals,
                   next_goal_id, call>>

\* the process starts on Monday 2024-12-30; the tables hold the user's check-ins
\* and completions of a daily habit on December 31 or January 1, or none
NewYearInit ==
    /\ clock = CheckinStart
    /\ today = clock
    /\ \E D \in SUBSET {date(FirstYear + 1, 12, 31), date(FirstYear + 2, 1, 1)} :
          checkins = SetToBag({Checkin(1, d, (d % 5) + 1) : d \in D})
    /\ \E D \in SUBSET {date(FirstYear + 1, 12, 31), date(FirstYear + 2, 1, 1)} :
          habit_completions = SetToBag({Completion(1, 1, d) : d \in D})
    /\ habits = {Habit(1, 1, "run", "daily")}
    /\ next_habit_id = 2
    /\ goals = {}
    /\ next_goal_id = 1
    /\ reply = NoReply
    /\ call = [fn |-> Null]

NewYearNext == MyYearNow \/ MyHabitYearNow \/ Midnight \/ Restart

NewYearSpec == NewYearInit /\ [][NewYearNext]_vars

\* the completion dates of the replied habit within the calendar year of date d
CompletionsOfYear(d) ==
    {r.date : r \in {x \in BagToSet(habit_completions) :
                        /\ x.user_id = reply.user_id
                        /\ x.habit_id = reply.habit_id
                        /\ YearOf[x.date] = YearOf[d]}}

(* C20: when the clock passes from December 31 to January 1 while the      *)
(* process runs, myyear and myhabityear issued afterwards render January 1 *)
(* to December 31 of the calendar year of the date on which the command    *)
(* runs, and myhabityear selects the completions of that same year.        *)
C20_YearFollowsClock ==
    (/\ reply # NoReply
     /\ reply.cmd \in {"myyear", "myhabityear"}
     /\ reply.outcome \in {"grid", "no_completions"}
     /\ reply.today = clock)
        => IF reply.outcome = "grid"
           THEN LET cells == Cells(reply.grid, 1)
                IN  /\ cells[1].date = date(YearOf[clock], 1, 1)
                    /\ cells[Len(cells)].date = date(YearOf[clock], 12, 31)
                    /\ reply.cmd = "myhabityear"
                          => {cells[i].date : i \in {j \in 1 .. Len(cells) :
                                                       cells[j].glyph = "green"}}
                                = CompletionsOfYear(clock)
           ELSE CompletionsOfYear(clock) = {}

====
